---- MODULE Spec2Model ----
(***************************************************************************)
(* Model of the escalator controller Roltrap-v1.py.                        *)
(*                                                                         *)
(* Three threads share one BasicEscalator object:                          *)
(*   - ThreadedLoop   (the sensor reader, run() at lines 107-119),         *)
(*   - SimpleDecrease (the decay scheduler, run() at lines 169-176),       *)
(*   - mainLoop       (the coordinator, lines 184-205).                    *)
(* Every read and every write of a shared attribute is one step, so that   *)
(* the unsynchronised "-=" and "+=" of lines 153 and 158 interleave.       *)
(*                                                                         *)
(* Distances are counted in hundredths of a centimetre (calculateDistance  *)
(* rounds to two decimals) and timestamps in units of 200 microseconds,    *)
(* which makes SPEEDOFSOUND/2 * duration a whole number of hundredths.     *)
(***************************************************************************)
EXTENDS Integers, Sequences, FiniteSets, TLC

\* ---------------------------------------------------------------- bounds
MaxCount == 3      \* the coordinator stops incrementing at this count
MaxTime  == 2      \* the clock stops advancing at this timestamp
MaxDecr  == 2      \* largest decreaseFactor passed by a direct caller
MaxFed   == 6      \* longest scripted run: readings plus decay steps

\* ------------------------------------------------------ program constants
SPEEDOFSOUND == 34300
DEVIATION    == 2
TRAVELTIME   == 15
Scale        == 100      \* hundredths per centimetre: round(..., 2)

\* ------------------------------------------------------------ Python values
\* A value carries its Python type, since setLastMeasurement tests type().
None       == [k |-> "none",  v |-> 0]
Float(x)   == [k |-> "float", v |-> x]
PyInt(x)   == [k |-> "int",   v |-> x]
PyStr      == [k |-> "str",   v |-> 0]
Unbound    == -1             \* a local variable that was never assigned

IsNumber(m) == m.k \in {"float", "int"}

Abs(x) == IF x < 0 THEN -x ELSE x

RUNNING == "Running"
STOPPED == "Stopped"

\* ------------------------------------------------------------ pure functions
\* ThreadedLoop.calculate_pulse_duration (the None test never fires: the
\* caller passes locals, which are unbound rather than None).
calculate_pulse_duration(pulseStart, pulseEnd) == pulseEnd - pulseStart

\* ThreadedLoop.calculateDistance: round((SPEEDOFSOUND/2) * seconds, 2), in
\* hundredths of a centimetre, for a duration given in units of 200 us:
\* (SPEEDOFSOUND/2) * (d * 2/10000) * Scale = (SPEEDOFSOUND * Scale / 10000) * d.
calculateDistance(pulseDuration) ==
    Float(((SPEEDOFSOUND * Scale) \div 10000) * pulseDuration)

\* BasicEscalator.status
status_mut(count) == IF count >= 0 THEN RUNNING ELSE STOPPED
status(count) == IF count > 0 THEN RUNNING ELSE STOPPED

\* BasicEscalator.setLastMeasurement raises ValueError on this condition.
setLastMeasurementRaises_mut(measurement) == measurement = None
setLastMeasurementRaises(measurement) ==
    (measurement.k # "float") \/ (measurement = None)

\* The condition of line 157, for numeric operands.
qualifies_mut(last, measurement) ==
    Abs(last.v - measurement.v) >= DEVIATION * Scale
qualifies(last, measurement) ==
    /\ Abs(last.v - measurement.v) >= DEVIATION * Scale
    /\ ~(measurement.v > last.v)

\* BasicEscalator.compareAndIncrease as a function of the object's count.
compareAndIncrease_mut(count, last, measurement) ==
    IF qualifies(last, measurement) THEN count + 1 ELSE count
compareAndIncrease(count, last, measurement) ==
    IF measurement # None
    THEN IF qualifies(last, measurement) THEN count + 1 ELSE count
    ELSE count

decreaseCount_mut(count, decreaseFactor) == count - 1
\* BasicEscalator.decreaseCount as a function of the object's count.
decreaseCount(count, decreaseFactor) == count - decreaseFactor

\* ------------------------------------------------------------------ state
VARIABLES
    onEscalator,       \* BasicEscalator._onEscalator
    lastMeasurement,   \* BasicEscalator._lastMeasurement
    current_distance,  \* ThreadedLoop._current_distance
    sensor_stop,       \* ThreadedLoop._stop_event
    pulse_start,       \* local of ThreadedLoop.run
    pulse_end,         \* local of ThreadedLoop.run
    sensorPc,          \* position of the ThreadedLoop thread
    decay_stop,        \* SimpleDecrease._stop_event
    decreaseFactor,    \* argument of the decreaseCount call in flight
    decayTmp,          \* count loaded by the "-=" in flight
    tick,              \* index of the for loop of SimpleDecrease.run
    decayPc,           \* position of the SimpleDecrease thread
    measurement,       \* argument of the compareAndIncrease call in flight
    incTmp,            \* count loaded by the "+=" in flight
    reported,          \* "New Measurement" printed by the current iteration
    mainPc,            \* position of the main thread
    echo,              \* level of the ECHO pin
    now,               \* time.time()
    call,              \* history: the last direct call on a BasicEscalator
    incSinceDecay,     \* history: increments stored since the last decay began
    fed,               \* history: the readings a scripted run has published
    afterStop          \* history: decay steps and ticks since decay_stop was set

escalatorVars == <<onEscalator, lastMeasurement>>
sensorVars == <<current_distance, pulse_start, pulse_end, sensorPc>>
decayVars  == <<decreaseFactor, decayTmp, tick, decayPc>>
mainVars   == <<measurement, incTmp, reported, mainPc>>
envVars    == <<echo, now>>
vars == <<onEscalator, lastMeasurement, current_distance, sensor_stop,
          pulse_start, pulse_end, sensorPc, decay_stop, decreaseFactor,
          decayTmp, tick, decayPc, measurement, incTmp, reported, mainPc,
          echo, now, call, incSinceDecay, fed, afterStop>>

NoCall == [op |-> "none", arg |-> None, amount |-> 0, count |-> 0,
           last |-> None, raised |-> FALSE]

\* The state after BasicEscalator() (line 185), before line 187.
Init ==
    /\ onEscalator = 0
    /\ lastMeasurement = PyInt(0)
    /\ current_distance = None
    /\ sensor_stop = FALSE
    /\ pulse_start = Unbound
    /\ pulse_end = Unbound
    /\ sensorPc = "unbound"
    /\ decay_stop = FALSE
    /\ decreaseFactor = 0
    /\ decayTmp = 0
    /\ tick = 0
    /\ decayPc = "unbound"
    /\ measurement = None
    /\ incTmp = 0
    /\ reported = None
    /\ mainPc = "mkSensor"
    /\ echo \in {0, 1}
    /\ now = 0
    /\ call = NoCall
    /\ incSinceDecay = 0
    /\ fed = <<>>
    /\ afterStop = [steps |-> 0, ticks |-> 0]

terminated_mut(pc) == TRUE
\* Thread.join() returns once run() has returned or raised.
terminated(pc) == pc \in {"done", "crashed"}

\* --------------------------------------------------------- the environment
\* The sensor drives the ECHO pin; the program only reads it.
EchoChange ==
    /\ echo' = 1 - echo
    /\ UNCHANGED <<escalatorVars, sensorVars, sensor_stop, decayVars,
                   decay_stop, mainVars, now, call, fed, afterStop, incSinceDecay>>

ClockTick ==
    /\ now < MaxTime
    /\ now' = now + 1
    /\ UNCHANGED <<escalatorVars, sensorVars, sensor_stop, decayVars,
                   decay_stop, mainVars, echo, call, fed, afterStop, incSinceDecay>>

\* ------------------------------------------------- ThreadedLoop.run (107-119)
sensorFrame == UNCHANGED <<escalatorVars, sensor_stop, decayVars, decay_stop,
                           mainVars, envVars, call, fed, afterStop, incSinceDecay>>

\* line 111: while not self._stop_event.is_set()
SensorLoopTest ==
    /\ sensorPc = "loopTest"
    /\ IF sensor_stop
       THEN sensorPc' = "done" /\ pulse_start' = Unbound /\ pulse_end' = Unbound
       ELSE sensorPc' = "pulse" /\ UNCHANGED <<pulse_start, pulse_end>>
    /\ UNCHANGED current_distance
    /\ sensorFrame

\* line 112: makePulse() only drives TRIG and sleeps
makePulse ==
    /\ sensorPc = "pulse"
    /\ sensorPc' = "waitRise"
    /\ UNCHANGED <<current_distance, pulse_start, pulse_end>>
    /\ sensorFrame

\* lines 113-114: while GPIO.input(ECHO) == 0: pulse_start = time.time()
SensorWaitRise ==
    /\ sensorPc = "waitRise"
    /\ IF echo = 0
       THEN pulse_start' = now /\ sensorPc' = "waitRise"
       ELSE pulse_start' = pulse_start /\ sensorPc' = "waitFall"
    /\ UNCHANGED <<current_distance, pulse_end>>
    /\ sensorFrame

\* lines 116-117: while GPIO.input(ECHO) == 1: pulse_end = time.time()
SensorWaitFall ==
    /\ sensorPc = "waitFall"
    /\ IF echo = 1
       THEN pulse_end' = now /\ sensorPc' = "waitFall"
       ELSE pulse_end' = pulse_end /\ sensorPc' = "publish"
    /\ UNCHANGED <<current_distance, pulse_start>>
    /\ sensorFrame

SensorPublish_mut ==
    /\ sensorPc = "publish"
    /\ IF pulse_start = Unbound \/ pulse_end = Unbound
       THEN /\ sensorPc' = "crashed"
            /\ UNCHANGED current_distance
       ELSE /\ current_distance' =
                  IF calculate_pulse_duration(pulse_start, pulse_end) < 0
                  THEN None
                  ELSE calculateDistance(
                           calculate_pulse_duration(pulse_start, pulse_end))
            /\ sensorPc' = "loopTest"
    /\ UNCHANGED <<pulse_start, pulse_end>>
    /\ sensorFrame

\* line 119: reading a local that was never assigned raises
\* UnboundLocalError, which ends the thread.
SensorPublish ==
    /\ sensorPc = "publish"
    /\ IF pulse_start = Unbound \/ pulse_end = Unbound
       THEN /\ sensorPc' = "crashed"
            /\ UNCHANGED current_distance
       ELSE /\ current_distance' = calculateDistance(
                    calculate_pulse_duration(pulse_start, pulse_end))
            /\ sensorPc' = "loopTest"
    /\ UNCHANGED <<pulse_start, pulse_end>>
    /\ sensorFrame

SensorStep ==
    \/ SensorLoopTest
    \/ makePulse
    \/ SensorWaitRise
    \/ SensorWaitFall
    \/ SensorPublish

\* ----------------------------------------------- SimpleDecrease.run (169-176)
decayFrame == UNCHANGED <<lastMeasurement, sensorVars, sensor_stop,
                          decay_stop, mainVars, envVars, call, fed>>

\* line 170: while not self._stop_event.is_set()
DecayLoopTest ==
    /\ decayPc = "loopTest"
    /\ decayPc' = IF decay_stop THEN "done" ELSE "check"
    /\ UNCHANGED <<onEscalator, decreaseFactor, decayTmp, tick, incSinceDecay,
                   afterStop>>
    /\ decayFrame

\* line 171: if self._basicEscObj.escalatorCount >= 0
DecayCheck ==
    /\ decayPc = "check"
    /\ decayPc' = IF onEscalator >= 0 THEN "arg" ELSE "loopTest"
    /\ UNCHANGED <<onEscalator, decreaseFactor, decayTmp, tick, incSinceDecay,
                   afterStop>>
    /\ decayFrame

\* line 172: the argument self._basicEscObj.escalatorCount is evaluated
DecayArg ==
    /\ decayPc = "arg"
    /\ decreaseFactor' = onEscalator
    /\ incSinceDecay' = 0
    /\ UNCHANGED afterStop
    /\ decayPc' = "load"
    /\ UNCHANGED <<onEscalator, decayTmp, tick>>
    /\ decayFrame

\* line 153: self._onEscalator -= decreaseFactor, the read
DecayLoad ==
    /\ decayPc = "load"
    /\ decayTmp' = onEscalator
    /\ decayPc' = "store"
    /\ UNCHANGED <<onEscalator, decreaseFactor, tick, incSinceDecay,
                   afterStop>>
    /\ decayFrame

DecayStore_mut ==
    /\ decayPc = "store"
    /\ onEscalator' = decreaseCount(decayTmp, decreaseFactor)
    /\ lastMeasurement' = PyInt(0)
    /\ decreaseFactor' = 0
    /\ decayTmp' = 0
    /\ tick' = 0
    /\ decayPc' = "tickTest"
    /\ UNCHANGED <<incSinceDecay, afterStop, sensorVars, sensor_stop,
                   decay_stop, mainVars, envVars, call, fed>>

\* line 153: self._onEscalator -= decreaseFactor, the write; then line 173
\* starts the for loop
DecayStore ==
    /\ decayPc = "store"
    /\ onEscalator' = decreaseCount(decayTmp, decreaseFactor)
    /\ decreaseFactor' = 0
    /\ decayTmp' = 0
    /\ tick' = 0
    /\ decayPc' = "tickTest"
    /\ UNCHANGED incSinceDecay
    /\ afterStop' = IF decay_stop
                    THEN [afterStop EXCEPT !.steps = @ + 1]
                    ELSE afterStop
    /\ decayFrame

DecayTickTest_mut ==
    /\ decayPc = "tickTest"
    /\ IF tick = TRAVELTIME
       THEN decayPc' = "loopTest" /\ tick' = 0
       ELSE decayPc' = "sleep" /\ tick' = tick
    /\ UNCHANGED <<onEscalator, decreaseFactor, decayTmp, incSinceDecay,
                   afterStop>>
    /\ decayFrame

\* lines 173-175: next value of range(TRAVELTIME), then the stop test
DecayTickTest ==
    /\ decayPc = "tickTest"
    /\ IF tick = TRAVELTIME \/ decay_stop
       THEN decayPc' = "loopTest" /\ tick' = 0
       ELSE decayPc' = "sleep" /\ tick' = tick
    /\ UNCHANGED <<onEscalator, decreaseFactor, decayTmp, incSinceDecay,
                   afterStop>>
    /\ decayFrame

\* line 176: time.sleep(1)
DecaySleep ==
    /\ decayPc = "sleep"
    /\ tick' = tick + 1
    /\ decayPc' = "tickTest"
    /\ UNCHANGED <<onEscalator, decreaseFactor, decayTmp, incSinceDecay>>
    /\ afterStop' = IF decay_stop
                    THEN [afterStop EXCEPT !.ticks = @ + 1]
                    ELSE afterStop
    /\ decayFrame

DecayStep ==
    \/ DecayLoopTest
    \/ DecayCheck
    \/ DecayArg
    \/ DecayLoad
    \/ DecayStore
    \/ DecayTickTest
    \/ DecaySleep

\* ------------------------------------------------------- mainLoop (184-205)
mainFrame == UNCHANGED <<current_distance, pulse_start, pulse_end,
                         decayVars, envVars, call, fed, afterStop>>

\* line 187: countLoop = ThreadedLoop()
MainMakeSensor ==
    /\ mainPc = "mkSensor"
    /\ sensorPc' = "new"
    /\ mainPc' = "startSensor"
    /\ UNCHANGED <<escalatorVars, sensor_stop, decay_stop, measurement,
                   incTmp, reported, incSinceDecay>>
    /\ mainFrame

\* line 188: countLoop.start()
MainStartSensor ==
    /\ mainPc = "startSensor"
    /\ sensorPc' = "loopTest"
    /\ mainPc' = "mkDecay"
    /\ UNCHANGED <<escalatorVars, sensor_stop, decay_stop, measurement,
                   incTmp, reported, incSinceDecay>>
    /\ mainFrame

\* line 189: decreaseLoop = SimpleDecrease(basicEscObj=escalatorLogic)
MainMakeDecay ==
    /\ mainPc = "mkDecay"
    /\ decayPc' = "new"
    /\ mainPc' = "startDecay"
    /\ UNCHANGED <<escalatorVars, sensorVars, sensor_stop, decay_stop,
                   decreaseFactor, decayTmp, tick, measurement, incTmp,
                   reported, envVars, call, fed, afterStop, incSinceDecay>>

\* line 190: decreaseLoop.start()
MainStartDecay ==
    /\ mainPc = "startDecay"
    /\ decayPc' = "loopTest"
    /\ mainPc' = "rd1"
    /\ UNCHANGED <<escalatorVars, sensorVars, sensor_stop, decay_stop,
                   decreaseFactor, decayTmp, tick, measurement, incTmp,
                   reported, envVars, call, fed, afterStop, incSinceDecay>>

MainReadForCompare_mut ==
    /\ mainPc = "rd1"
    /\ measurement' = current_distance
    /\ lastMeasurement' = IF current_distance # None
                          THEN current_distance ELSE lastMeasurement
    /\ mainPc' = IF current_distance # None THEN "cmp" ELSE "report"
    /\ UNCHANGED <<onEscalator, sensorPc, sensor_stop, decay_stop, incTmp,
                   reported, incSinceDecay>>
    /\ mainFrame

\* line 192: the argument countLoop.current_distance is read, and line 156
\* tests it against None
MainReadForCompare ==
    /\ mainPc = "rd1"
    /\ measurement' = current_distance
    /\ mainPc' = IF current_distance # None THEN "cmp" ELSE "report"
    /\ UNCHANGED <<escalatorVars, sensorPc, sensor_stop, decay_stop, incTmp,
                   reported, incSinceDecay>>
    /\ mainFrame

\* line 157: the comparison with self._lastMeasurement
MainCompare ==
    /\ mainPc = "cmp"
    /\ mainPc' = IF qualifies(lastMeasurement, measurement)
                 THEN "incLoad" ELSE "report"
    /\ UNCHANGED <<escalatorVars, sensorPc, sensor_stop, decay_stop,
                   measurement, incTmp, reported, incSinceDecay>>
    /\ mainFrame

\* line 158: self._onEscalator += 1, the read
MainIncLoad ==
    /\ mainPc = "incLoad"
    /\ onEscalator < MaxCount
    /\ incTmp' = onEscalator
    /\ mainPc' = "incStore"
    /\ UNCHANGED <<escalatorVars, sensorPc, sensor_stop, decay_stop,
                   measurement, reported, incSinceDecay>>
    /\ mainFrame

\* line 158: self._onEscalator += 1, the write
MainIncStore ==
    /\ mainPc = "incStore"
    /\ onEscalator' = incTmp + 1
    /\ incTmp' = 0
    /\ incSinceDecay' = incSinceDecay + 1
    /\ mainPc' = "report"
    /\ UNCHANGED <<lastMeasurement, sensorPc, sensor_stop, decay_stop,
                   measurement, reported>>
    /\ mainFrame

\* lines 193-198: the print reads countLoop.current_distance again
MainReport ==
    /\ mainPc = "report"
    /\ reported' = current_distance
    /\ mainPc' = "rd3"
    /\ UNCHANGED <<escalatorVars, sensorPc, sensor_stop, decay_stop,
                   measurement, incTmp, incSinceDecay>>
    /\ mainFrame

\* line 199: if not countLoop.current_distance is None
MainPresenceTest ==
    /\ mainPc = "rd3"
    /\ mainPc' = IF current_distance # None THEN "set" ELSE "sleep"
    /\ reported' = None
    /\ UNCHANGED <<escalatorVars, sensorPc, sensor_stop, decay_stop,
                   measurement, incTmp, incSinceDecay>>
    /\ mainFrame

\* line 200: setLastMeasurement(countLoop.current_distance), a fresh read;
\* a ValueError is not caught by "except KeyboardInterrupt".  The value
\* compared at line 192 is out of scope from here on.
MainSetLast ==
    /\ mainPc = "set"
    /\ IF setLastMeasurementRaises(current_distance)
       THEN mainPc' = "crashed" /\ UNCHANGED lastMeasurement
       ELSE mainPc' = "sleep" /\ lastMeasurement' = current_distance
    /\ measurement' = None
    /\ UNCHANGED <<onEscalator, sensorPc, sensor_stop, decay_stop,
                   incTmp, reported, incSinceDecay>>
    /\ mainFrame

\* line 201: time.sleep(.2), then the next iteration
MainSleep ==
    /\ mainPc = "sleep"
    /\ mainPc' = "rd1"
    /\ measurement' = None
    /\ reported' = None
    /\ UNCHANGED <<escalatorVars, sensorPc, sensor_stop, decay_stop, incTmp,
                   incSinceDecay>>
    /\ mainFrame

TryStates == {"mkSensor", "startSensor", "mkDecay", "startDecay", "rd1",
              "cmp", "incLoad", "incStore", "report", "rd3", "set", "sleep"}

\* line 202: Ctrl-C anywhere in the try block; the values in flight in
\* the interrupted statement are dropped
KeyboardInterrupt ==
    /\ mainPc \in TryStates
    /\ mainPc' = "stopSensor"
    /\ measurement' = None
    /\ incTmp' = 0
    /\ reported' = None
    /\ UNCHANGED <<escalatorVars, sensorPc, sensor_stop, decay_stop,
                   incSinceDecay>>
    /\ mainFrame

\* lines 203, 122: countLoop.stopThread() sets the event; countLoop is
\* unbound when the interrupt came before line 187 completed
MainStopSensor ==
    /\ mainPc = "stopSensor"
    /\ IF sensorPc = "unbound"
       THEN mainPc' = "crashed" /\ UNCHANGED sensor_stop
       ELSE mainPc' = "joinSensor" /\ sensor_stop' = TRUE
    /\ UNCHANGED <<escalatorVars, sensorPc, decay_stop, measurement, incTmp,
                   reported, incSinceDecay>>
    /\ mainFrame

\* line 123: self.join() raises RuntimeError on a thread never started
MainJoinSensor ==
    /\ mainPc = "joinSensor"
    /\ \/ sensorPc = "new" /\ mainPc' = "crashed"
       \/ sensorPc # "new" /\ terminated(sensorPc) /\ mainPc' = "stopDecay"
    /\ UNCHANGED <<escalatorVars, sensorPc, sensor_stop, decay_stop,
                   measurement, incTmp, reported, incSinceDecay>>
    /\ mainFrame

\* lines 204, 179: decreaseLoop.stop() sets the event
MainStopDecay ==
    /\ mainPc = "stopDecay"
    /\ IF decayPc = "unbound"
       THEN mainPc' = "crashed" /\ UNCHANGED decay_stop
       ELSE mainPc' = "joinDecay" /\ decay_stop' = TRUE
    /\ UNCHANGED <<escalatorVars, sensorPc, sensor_stop, measurement, incTmp,
                   reported, incSinceDecay>>
    /\ mainFrame

\* line 180: self.join()
MainJoinDecay ==
    /\ mainPc = "joinDecay"
    /\ \/ decayPc = "new" /\ mainPc' = "crashed"
       \/ decayPc # "new" /\ terminated(decayPc) /\ mainPc' = "exit"
    /\ UNCHANGED <<escalatorVars, sensorPc, sensor_stop, decay_stop,
                   measurement, incTmp, reported, incSinceDecay>>
    /\ mainFrame

\* line 205: exit()
MainExit ==
    /\ mainPc = "exit"
    /\ mainPc' = "exited"
    /\ UNCHANGED <<escalatorVars, sensorPc, sensor_stop, decay_stop,
                   measurement, incTmp, reported, incSinceDecay>>
    /\ mainFrame

MainStep ==
    \/ MainMakeSensor
    \/ MainStartSensor
    \/ MainMakeDecay
    \/ MainStartDecay
    \/ MainReadForCompare
    \/ MainCompare
    \/ MainIncLoad
    \/ MainIncStore
    \/ MainReport
    \/ MainPresenceTest
    \/ MainSetLast
    \/ MainSleep
    \/ MainStopSensor
    \/ MainStopDecay
    \/ MainJoinSensor
    \/ MainJoinDecay
    \/ MainExit

Next ==
    \/ EchoChange
    \/ ClockTick
    \/ SensorStep
    \/ DecayStep
    \/ MainStep
    \/ KeyboardInterrupt

Spec == Init /\ [][Next]_vars

TypeOK ==
    /\ onEscalator \in -MaxCount..MaxCount
    /\ now \in 0..MaxTime
    /\ tick \in 0..TRAVELTIME

\* ------------------------------------------- direct calls on a BasicEscalator
\* The public methods of a freshly constructed BasicEscalator, called one
\* at a time with arbitrary arguments, no thread running.
Readings == {9500, 9700, 9900, 10000, 10500}
NumberInputs == {Float(x) : x \in Readings} \cup {PyInt(10000)}
AnyInputs == NumberInputs \cup {None, PyStr}

unitFrame == UNCHANGED <<sensorVars, sensor_stop, decayVars, decay_stop,
                         mainVars, envVars, incSinceDecay, fed, afterStop>>

CallCompareAndIncrease(m) ==
    /\ onEscalator < MaxCount
    /\ onEscalator' = compareAndIncrease(onEscalator, lastMeasurement, m)
    /\ UNCHANGED lastMeasurement
    /\ call' = [op |-> "compareAndIncrease", arg |-> m, amount |-> 0,
                count |-> onEscalator, last |-> lastMeasurement,
                raised |-> FALSE]
    /\ unitFrame

CallSetLastMeasurement(m) ==
    /\ IF setLastMeasurementRaises(m)
       THEN UNCHANGED lastMeasurement
       ELSE lastMeasurement' = m
    /\ UNCHANGED onEscalator
    /\ call' = [op |-> "setLastMeasurement", arg |-> m, amount |-> 0,
                count |-> onEscalator, last |-> lastMeasurement,
                raised |-> setLastMeasurementRaises(m)]
    /\ unitFrame

CallDecreaseCount(amount) ==
    /\ onEscalator - amount >= -MaxCount
    /\ onEscalator' = decreaseCount(onEscalator, amount)
    /\ UNCHANGED lastMeasurement
    /\ call' = [op |-> "decreaseCount", arg |-> None, amount |-> amount,
                count |-> onEscalator, last |-> lastMeasurement,
                raised |-> FALSE]
    /\ unitFrame

UnitNext ==
    \/ \E m \in NumberInputs \cup {None} : CallCompareAndIncrease(m)
    \/ \E m \in AnyInputs : CallSetLastMeasurement(m)
    \/ \E amount \in 0..MaxDecr : CallDecreaseCount(amount)

UnitSpec == Init /\ [][UnitNext]_vars

\* ------------------------------------------------------- scripted readings
\* One coordinator iteration per published reading, the threads otherwise
\* quiet: the sensor thread publishes a given distance (line 119), the main
\* thread runs lines 192-201 on it, and a decay step (lines 171-172) runs
\* only between iterations.  fed records what happened, in order.
ScenarioReadings == {9500, 9700, 10000}
DecayMark == 0

ScenarioInit ==
    /\ onEscalator = 0
    /\ lastMeasurement = PyInt(0)
    /\ current_distance = None
    /\ sensor_stop = FALSE
    /\ pulse_start = Unbound
    /\ pulse_end = Unbound
    /\ sensorPc = "waitRise"
    /\ decay_stop = FALSE
    /\ decreaseFactor = 0
    /\ decayTmp = 0
    /\ tick = 0
    /\ decayPc = "tickTest"
    /\ measurement = None
    /\ incTmp = 0
    /\ reported = None
    /\ mainPc = "rd1"
    /\ echo = 0
    /\ now = 0
    /\ call = NoCall
    /\ incSinceDecay = 0
    /\ fed = <<>>
    /\ afterStop = [steps |-> 0, ticks |-> 0]

\* line 119 publishes x, then line 192 reads it
ScenarioPublish(x) ==
    /\ mainPc = "rd1"
    /\ Len(fed) < MaxFed
    /\ current_distance' = Float(x)
    /\ fed' = Append(fed, x)
    /\ measurement' = Float(x)
    /\ mainPc' = "cmp"
    /\ UNCHANGED <<escalatorVars, sensor_stop, pulse_start, pulse_end,
                   sensorPc, decayVars, decay_stop, incTmp, reported,
                   envVars, call, incSinceDecay, afterStop>>

\* lines 171-172 with the main thread between two iterations
ScenarioDecay ==
    /\ mainPc = "rd1"
    /\ Len(fed) < MaxFed
    /\ onEscalator >= 0
    /\ onEscalator' = decreaseCount(onEscalator, onEscalator)
    /\ fed' = Append(fed, DecayMark)
    /\ incSinceDecay' = 0
    /\ UNCHANGED <<lastMeasurement, sensorVars, sensor_stop, decayVars,
                   decay_stop, mainVars, envVars, call, afterStop>>

ScenarioNext ==
    \/ \E x \in ScenarioReadings : ScenarioPublish(x)
    \/ ScenarioDecay
    \/ MainCompare
    \/ MainIncLoad
    \/ MainIncStore
    \/ MainReport
    \/ MainPresenceTest
    \/ MainSetLast
    \/ MainSleep

ScenarioSpec == ScenarioInit /\ [][ScenarioNext]_vars

\* The threads are scheduled fairly; the ECHO pin and the clock are not
\* obliged to change, and Ctrl-C is not obliged to come.
FairSpec ==
    /\ Spec
    /\ WF_vars(SensorStep)
    /\ WF_vars(DecayStep)
    /\ WF_vars(MainStep)

\* ------------------------------------------------------------------ claims
Max(a, b) == IF a > b THEN a ELSE b

\* C1: under every interleaving of the coordinator's "+= 1" and the decay
\* thread's decreaseCount(escalatorCount), the count is never negative.
C1_CountNeverNegative == onEscalator >= 0

\* An increment landed between the decay thread's argument read and its
\* load, and the decay thread is about to write.
C1_Witness ==
    /\ decayPc = "store"
    /\ decayTmp > decreaseFactor
    /\ mainPc = "incStore"

\* C2: decreaseCount(amount) leaves max(count - amount, 0), never less than
\* zero, for every count >= 0 and amount >= 0.
C2_DecreaseClamped ==
    (call.op = "decreaseCount" /\ call.count >= 0 /\ call.amount >= 0)
        => /\ onEscalator = Max(call.count - call.amount, 0)
           /\ onEscalator >= 0

\* C3: compareAndIncrease(m) with m present adds exactly one to the count
\* iff abs(L - m) >= deviationCm and m <= L, leaves the count alone
\* otherwise, and never touches lastMeasurement; with L = 100: 95 counts,
\* 99 and 105 do not.
C3_CompareIncrementsIff ==
    (call.op = "compareAndIncrease" /\ call.arg # None)
        => /\ lastMeasurement = call.last
           /\ IF /\ Abs(call.last.v - call.arg.v) >= 2 * 100
                 /\ call.arg.v <= call.last.v
              THEN onEscalator = call.count + 1
              ELSE onEscalator = call.count
           /\ call.last.v = 10000 /\ call.arg.v = 9500
                 => onEscalator = call.count + 1
           /\ call.last.v = 10000 /\ call.arg.v = 9900
                 => onEscalator = call.count
           /\ call.last.v = 10000 /\ call.arg.v > 10000
                 => onEscalator = call.count

C3_Witness ==
    /\ call.op = "compareAndIncrease"
    /\ call.last = Float(10000)
    /\ call.arg = Float(9500)
    /\ onEscalator = call.count + 1

\* C4: in every reachable state the derived status is Running iff the count
\* is positive, and Stopped otherwise.
C4_StatusIffPositive ==
    /\ (status(onEscalator) = "Running") <=> (onEscalator > 0)
    /\ (status(onEscalator) = "Stopped") <=> ~(onEscalator > 0)

\* The count was reset by a decay step and the status is Stopped again.
C4_Witness ==
    /\ decayPc = "tickTest"
    /\ incSinceDecay > 0
    /\ onEscalator = 0
    /\ status(onEscalator) = "Stopped"

\* C5: compareAndIncrease with an absent measurement changes neither the
\* count, nor lastMeasurement, nor the status, in any state.
C5_AbsentIsNoOp ==
    (call.op = "compareAndIncrease" /\ call.arg = None)
        => /\ onEscalator = call.count
           /\ lastMeasurement = call.last
           /\ status(onEscalator) = status(call.count)
           /\ ~call.raised

C5_Witness ==
    /\ call.op = "compareAndIncrease"
    /\ call.arg = None
    /\ call.count > 0
    /\ call.last.v > 0

\* C6 as stated: setLastMeasurement(m) raises exactly when m is absent or
\* not a number, and stores every number, integer or float.
C6_AcceptsEveryNumber ==
    (call.op = "setLastMeasurement")
        => /\ call.raised <=> ~IsNumber(call.arg)
           /\ call.raised => lastMeasurement = call.last
           /\ ~call.raised => lastMeasurement = call.arg
           /\ onEscalator = call.count

\* C6 amended: setLastMeasurement(m) raises exactly when m is not of type
\* float (absent, not a number, or an int), leaving lastMeasurement and the
\* count unchanged; every float is stored and the count is unchanged.
C6_AcceptsExactlyFloats ==
    (call.op = "setLastMeasurement")
        => /\ call.raised <=> (call.arg.k # "float")
           /\ call.raised => lastMeasurement = call.last
           /\ ~call.raised => lastMeasurement = call.arg
           /\ onEscalator = call.count

\* An int was refused after a float had been stored.
C6_Witness ==
    /\ call.op = "setLastMeasurement"
    /\ call.arg = PyInt(10000)
    /\ call.raised
    /\ call.last.k = "float"
    /\ lastMeasurement = call.last

\* C7: no update of the count is lost: whenever no decay step is in
\* flight, the count does not exceed the number of increments completed
\* since the most recent decay step began.
C7_NoLostUpdate ==
    (decayPc \notin {"load", "store"}) => onEscalator <= incSinceDecay

\* C8: once the termination request has reached a coordinator whose two
\* threads are running, both threads eventually terminate and the process
\* exits, whatever the ECHO pin does.
C8_ShutdownCompletes ==
    (mainPc = "stopSensor" /\ sensorPc \notin {"unbound", "new"}
                           /\ decayPc \notin {"unbound", "new"})
        ~> (mainPc = "exited" /\ sensorPc \in {"done", "crashed"}
                              /\ decayPc \in {"done", "crashed"})

\* C9: each stop call returns only after its thread has ended, a thread
\* that has ended takes no further step, and so at process exit both
\* threads have ended.
C9_StopReturnsAfterThreadEnds ==
    /\ [](mainPc \in {"stopDecay", "joinDecay", "exit", "exited"}
              => sensorPc \in {"done", "crashed"})
    /\ [](mainPc \in {"exit", "exited"} => decayPc \in {"done", "crashed"})
    /\ [][/\ sensorPc \in {"done", "crashed"} => UNCHANGED sensorVars
          /\ decayPc \in {"done", "crashed"}
                => UNCHANGED <<decayVars, onEscalator>>]_vars

\* The process exited after both threads had been running.
C9_Witness ==
    /\ mainPc = "exited"
    /\ sensorPc = "done"
    /\ decayPc = "done"
    /\ current_distance # None

\* C10: a measurement cycle without a complete rising/falling edge pair
\* never ends the sensor thread with an exception.
C10_IncompleteCycleNotFatal == sensorPc # "crashed"

\* C11: if from some point on no increment is in flight or started, and the
\* decay thread is never told to stop, then under fair scheduling the count
\* eventually is 0 and the status Stopped, and both stay so.
C11_DecayReachesZero ==
    (<>[](mainPc \notin {"incLoad", "incStore"}) /\ [](~decay_stop))
        => <>[](onEscalator = 0 /\ status(onEscalator) = "Stopped")

\* A decay step has reset a count that the current coordinator iteration
\* had raised, and no increment is in flight.
C11_Witness ==
    /\ mainPc = "report"
    /\ measurement # None
    /\ qualifies(lastMeasurement, measurement)
    /\ incSinceDecay = 0
    /\ decayPc = "tickTest"
    /\ ~decay_stop
    /\ onEscalator = 0

\* C12: from the initial state and with no decay step in between, the
\* readings 100.0, 100.0, 97.0, 97.0, 97.0, one coordinator iteration each,
\* give exactly one increment, at the first 97.0, and end with count 1 and
\* status Running; a decay step after them gives count 0 and Stopped.
C12_EndToEnd ==
    LET done == mainPc = "rd1"
    IN  /\ (done /\ fed \in {<<10000>>, <<10000, 10000>>})
            => onEscalator = 0
        /\ (fed = <<10000, 10000, 9700>> /\ mainPc \in {"cmp", "incLoad"})
            => onEscalator = 0
        /\ (done /\ fed \in {<<10000, 10000, 9700>>,
                             <<10000, 10000, 9700, 9700>>,
                             <<10000, 10000, 9700, 9700, 9700>>})
            => (onEscalator = 1 /\ status(onEscalator) = "Running")
        /\ (fed = <<10000, 10000, 9700, 9700, 9700, 0>>)
            => (onEscalator = 0 /\ status(onEscalator) = "Stopped")

\* The whole scenario has run, the decay step included.
C12_Witness ==
    /\ fed = <<10000, 10000, 9700, 9700, 9700, 0>>
    /\ lastMeasurement = Float(9700)
    /\ onEscalator = 0

\* C13: within one coordinator iteration a single reading is used: the
\* value printed as new measurement and the value stored by
\* setLastMeasurement are the value that was passed to compareAndIncrease.
C13_SingleReading ==
    [][/\ (mainPc = "report" /\ mainPc' = "rd3") => reported' = measurement
       /\ (mainPc = "set" /\ mainPc' = "sleep")
             => lastMeasurement' = measurement]_vars

\* C14: every decay step leaves the count at 0 in the state right after its
\* write, whatever the coordinator does meanwhile.
C14_DecayResetsToZero ==
    [][(decayPc = "store" /\ decayPc' = "tickTest") => onEscalator' = 0]_vars

\* C15: every published distance comes from a start and an end timestamp of
\* the same iteration with end >= start, so no published distance is
\* negative.
C15_FreshTimestamps == current_distance # None => current_distance.v >= 0

\* C16: in every coordinator iteration the comparison comes before
\* setLastMeasurement: lastMeasurement is written only by the store that ends
\* an iteration, so each comparison sees the value of an earlier iteration.
C16_CompareBeforeSet ==
    [][/\ (lastMeasurement' # lastMeasurement)
             => (mainPc = "set" /\ mainPc' = "sleep")
       /\ (mainPc' = "set" /\ mainPc # "set") => mainPc = "rd3"
       /\ (mainPc' = "rd3" /\ mainPc # "rd3") => mainPc = "report"
       /\ (mainPc' = "report" /\ mainPc # "report")
             => mainPc \in {"rd1", "cmp", "incStore"}
       /\ (mainPc' = "cmp" /\ mainPc # "cmp") => mainPc = "rd1"]_vars

\* A comparison against the reading stored by the previous iteration.
C16_Witness ==
    /\ mainPc = "cmp"
    /\ lastMeasurement.k = "float"
    /\ measurement # lastMeasurement
    /\ qualifies(lastMeasurement, measurement)

\* C17: once the decay thread's stop event is set the thread sleeps at most
\* one more second and performs at most one more decay step; without a stop,
\* exactly TRAVELTIME one-second sleeps lie between two decay steps.
C17_PromptStop ==
    /\ [](afterStop.ticks <= 1 /\ afterStop.steps <= 1)
    /\ [][/\ (decayPc = "tickTest" /\ decayPc' = "loopTest" /\ ~decay_stop)
                => tick = 15
          /\ (decayPc = "tickTest" /\ decayPc' = "sleep") => tick < 15
          /\ (decayPc = "sleep" /\ decayPc' = "tickTest") => tick' = tick + 1
          /\ (decayPc = "store" /\ decayPc' = "tickTest") => tick' = 0
          /\ (decayPc' = "arg" /\ decayPc # "arg") => tick = 0]_vars

\* The stop event was set during a sleep; the thread finished that sleep and
\* left.
C17_Witness ==
    /\ decayPc = "done"
    /\ afterStop.ticks = 1
    /\ afterStop.steps = 0

\* C18: the current distance is absent until a measurement is published and
\* never absent afterwards, so the coordinator's re-read at line 200 never
\* hands None to setLastMeasurement and never raises.
C18_NeverAbsentAgain ==
    [][/\ current_distance # None => current_distance' # None
       /\ current_distance' # current_distance
             => (sensorPc = "publish" /\ sensorPc' = "loopTest")
       /\ (mainPc = "set" /\ mainPc' \notin {"set", "stopSensor"})
             => /\ mainPc' = "sleep"
                /\ lastMeasurement'.k = "float"
                /\ lastMeasurement' = current_distance]_vars

\* The re-read of line 200 has stored a published distance that never
\* counted as an arrival.
C18_Witness ==
    /\ mainPc = "sleep"
    /\ onEscalator = 0
    /\ incSinceDecay = 0
    /\ lastMeasurement.k = "float"
    /\ lastMeasurement = current_distance
    /\ lastMeasurement.v > 0

\* C19: no decay step writes lastMeasurement or the current distance, no
\* sensor step writes the count or lastMeasurement, and no coordinator step
\* writes the current distance.
C19_Frames ==
    [][/\ (decayPc' # decayPc /\ decayPc \notin {"unbound", "new"})
             => UNCHANGED <<lastMeasurement, current_distance>>
       /\ (sensorVars' # sensorVars /\ sensorPc \notin {"unbound", "new"})
             => UNCHANGED <<onEscalator, lastMeasurement>>
       /\ (mainPc' # mainPc) => UNCHANGED current_distance
       /\ (lastMeasurement' # lastMeasurement) => mainPc' # mainPc
       /\ (current_distance' # current_distance)
             => sensorPc' # sensorPc]_vars

\* A decay step has just written the count while a reading is stored and
\* another one is published.
C19_Witness ==
    /\ decayPc = "tickTest"
    /\ tick = 0
    /\ lastMeasurement.k = "float"
    /\ current_distance # None
    /\ current_distance # lastMeasurement

====
